---- MODULE Spec2Model ----
(***************************************************************************)
(* Model of the generation job orchestrator of the Lumina backend:         *)
(* the GenerateMusic / GenerateVideo request handlers, the pipeline        *)
(* goroutine each of them launches, the credit debit and ledger write at   *)
(* completion, and the handlers that rewrite a generation row              *)
(* (ToggleFavorite, TogglePublic, DeleteGeneration).                       *)
(*                                                                         *)
(* Storage statements are atomic one by one (each db.First, db.Create,     *)
(* db.Save, db.Model().Update is one SQL statement); nothing in the source *)
(* groups two of them into a transaction, so another task may run between  *)
(* any two of them.  A step of a pipeline runs from the return of one      *)
(* blocking provider call (or storage write) to the next one.              *)
(*                                                                         *)
(* Texts are abstracted to what the code looks at: a narration is its      *)
(* word count (0 = no narration), URLs and error messages are tags.        *)
(*                                                                         *)
(* The websocket hub (Register, Unregister, SendToUser over the registered *)
(* connections), the narration speed calculator and the clamp of the video *)
(* request are modelled next to the orchestrator, each with a              *)
(* specification of its own.                                               *)
(***************************************************************************)
EXTENDS Integers, Sequences, FiniteSets, TLC

\* ---------------------------------------------------------------- bounds
MaxJobs == 2
NumUsers == 1
StartCredits == 3
MaxRowJobs == 1
MaxConns == 3
PollTicks == 2
MaxWords == 24
MaxSpeedDuration == 8
MaxClampDuration == 11
MaxPeriods == 121
MaxSenders == 2
MaxLimit == 2
MaxClock == 4
MaxRateClients == 2

\* ------------------------------------------------------------- constants
Users == 1..NumUsers
GhostUser == 0
MusicCost == 1
VideoCost == 2
VideoNarrationCost == 3
DefaultDuration == 6
WordCounts == {0, 10, 30}
Durations == {0, 6}

StatusProcessing == "processing"
StatusCompleted == "completed"
StatusFailed == "failed"
TypeMusic == "music"
TypeVideo == "video"

\* HTTP status of a response
StatusOK == 200
StatusAccepted == 202
StatusBadRequest == 400
StatusPaymentRequired == 402
StatusNotFound == 404

VARIABLES
  configured,   \* minimax.IsConfigured(): the API key is set (fixed at start)
  alive,        \* the server process is running
  credits,      \* users.credits column, per user row
  initCredits,  \* the balance each user had when the observation starts
  ledger,       \* credit_transactions table, in creation order
  jobs,         \* generations table, row id = index
  task,         \* per job: the pipeline goroutine and its captured variables
  notif,        \* per job: types of the messages passed to hub.SendToUser
  cache,        \* per user: a listing entry generations:<user>:* is cached
  inflight,     \* a toggle handler stopped between its read and its write
  debited,      \* per job: number of executed credit UPDATE statements
  resp,         \* HTTP status answered by the step just taken (0: no response)
  clients,      \* hub.clients: per connection, the user it is registered for
  broken,       \* connections on which WriteJSON returns an error
  inbox,        \* per connection: messages the last SendToUser call wrote to it
  sentTo,       \* userID of the SendToUser call made by the step just taken (0: none)
  speedCall,    \* the last call of CalculateOptimalSpeed: arguments and result
  videoReq,     \* the last call of MiniMaxService.GenerateVideo: arguments and
                \* the request body sent to the provider
  poller,       \* one call of MiniMaxService.WaitForCompletion: its position,
                \* its clock and what it has seen and done
  senders,      \* per calling task: its position inside WSHub.SendToUser
  lister,       \* one GetGenerations request between its database read and
                \* its cache write, and the listing each cache entry holds
  limiter       \* one rateLimiter: its limit, its map of clients, the clock
                \* and the result of the last isAllowed call

hubVars == <<clients, broken, inbox, sentTo>>
callVars == <<speedCall, videoReq, poller, senders, lister, limiter>>

vars == <<configured, alive, credits, initCredits, ledger, jobs, task, notif,
          cache, inflight, debited, resp, hubVars, callVars>>

JobIds == 1..Len(jobs)
NoReq == [op |-> "none"]
NoCall == [fn |-> "none"]
Conns == 1..MaxConns
Unregistered == 0
Idle == [pc |-> "idle"]
Senders == 1..MaxSenders
NoLimiter == [limit |-> "none"]
\* the user a message is for and one other user: SendToUser only compares
\* client.UserID with its argument
HubUsers == {1, 2}
Ops == {"favorite", "public"}

\* ------------------------------------------------------ narration speed
\* CalculateOptimalSpeed, in tenths: est = words/2.5, target = d - 0.5.
\* Quantities are scaled by 10 (est10 = 4*words, target10 = 10*d - 5).

\* Variant: the target is the whole duration, without the half second.
Target10_FullDuration(videoDuration) == 10 * videoDuration

\* targetDuration, in tenths
Target10(videoDuration) ==
  IF 10 * videoDuration - 5 <= 0 THEN 10 * videoDuration
                                 ELSE 10 * videoDuration - 5

\* Variant: the quotient is rounded down instead of toward zero.
TruncDiv_Floor(a, b) == IF b > 0 THEN a \div b ELSE (-a) \div (-b)

\* truncation toward zero of a/b (Go's int(x) conversion), b # 0
TruncDiv(a, b) ==
  LET q == IF a >= 0 THEN a \div (IF b > 0 THEN b ELSE -b)
                     ELSE -((-a) \div (IF b > 0 THEN b ELSE -b))
  IN IF b > 0 THEN q ELSE -q

\* Variant: the error threshold is 1.4.
CalculateOptimalSpeed_Limit14(words, videoDuration) ==
  LET est10 == 4 * words
      t10   == Target10(videoDuration)
      Above(k) == IF t10 > 0 THEN 10 * est10 > k * t10
                  ELSE IF t10 < 0 THEN 10 * est10 < k * t10
                  ELSE est10 > 0
  IN IF est10 <= t10 THEN [speed10 |-> 10, err |-> FALSE]
     ELSE IF Above(13)
          THEN IF Above(14) THEN [speed10 |-> 0, err |-> TRUE]
                            ELSE [speed10 |-> 13, err |-> FALSE]
          ELSE [speed10 |-> IF t10 = 0 THEN 0 ELSE TruncDiv(10 * est10, t10),
                err |-> FALSE]

\* CalculateOptimalSpeed(text, videoDuration), text given by its word count
CalculateOptimalSpeed(words, videoDuration) ==
  LET est10 == 4 * words
      t10   == Target10(videoDuration)
      \* requiredSpeed > k/10  <=>  est10/t10 > k/10
      Above(k) == IF t10 > 0 THEN 10 * est10 > k * t10
                  ELSE IF t10 < 0 THEN 10 * est10 < k * t10
                  ELSE est10 > 0
  IN IF est10 <= t10 THEN [speed10 |-> 10, err |-> FALSE]
     ELSE IF Above(13)
          THEN IF Above(15) THEN [speed10 |-> 0, err |-> TRUE]
                            ELSE [speed10 |-> 13, err |-> FALSE]
          ELSE [speed10 |-> IF t10 = 0 THEN 0 ELSE TruncDiv(10 * est10, t10),
                err |-> FALSE]

\* ----------------------------------------------------------- data model
Generation(u, type, cost, narr) ==
  [UserID |-> u, Type |-> type, Status |-> StatusProcessing,
   CreditsCost |-> cost, Narration |-> narr,
   IsFavorite |-> FALSE, IsPublic |-> FALSE,
   OutputURL |-> "", ThumbnailURL |-> "", ErrorMessage |-> "",
   MiniMaxJobID |-> "", Deleted |-> FALSE]

\* Variant: the entry is created without the link to the job.
CreditTransaction_NoJobLink(u, amount, j, before, after) ==
  [UserID |-> u, Amount |-> amount, Type |-> "usage", GenerationID |-> 0,
   BalanceBefore |-> before, BalanceAfter |-> after]

CreditTransaction(u, amount, j, before, after) ==
  [UserID |-> u, Amount |-> amount, Type |-> "usage", GenerationID |-> j,
   BalanceBefore |-> before, BalanceAfter |-> after]

\* ------------------------------------------------------------- helpers
\* hub.SendToUser(userID, {type, generation}) for job j
SendToUser(log, j, msgs) == [log EXCEPT ![j] = @ \o msgs]

\* cache.Cache.DeletePattern("generations:<u>:*")
DeletePattern(c, u) == [c EXCEPT ![u] = FALSE]

\* Variant: the write is skipped.
Save_SkipsWrite(rows, j, g) == rows

\* db.Save(&generation): UPDATE of every column by primary key; when no live
\* row matches (soft-deleted), gorm falls back to an upsert of every column,
\* deleted_at included.
Save(rows, j, g) == [rows EXCEPT ![j] = g]

\* user.Credits < cost
InsufficientCredits(balance, cost) == balance < cost

Init ==
  /\ configured \in BOOLEAN
  /\ alive = TRUE
  /\ credits = [u \in Users |-> StartCredits]
  /\ initCredits = credits
  /\ ledger = <<>>
  /\ jobs = <<>>
  /\ task = <<>>
  /\ notif = <<>>
  /\ cache = [u \in Users |-> FALSE]
  /\ inflight = NoReq
  /\ debited = <<>>
  /\ resp = 0
  /\ clients = [c \in Conns |-> Unregistered]
  /\ broken = {}
  /\ inbox = [c \in Conns |-> 0]
  /\ sentTo = 0
  /\ speedCall = NoCall
  /\ videoReq = NoCall
  /\ poller = Idle
  /\ senders = [s \in Senders |-> Idle]
  /\ lister = [pc |-> "idle", stored |-> [u \in Users |-> <<>>]]
  /\ limiter = NoLimiter

\* Variant: the rejection path runs the cache invalidation first.
Reject_InvalidatesCache(code) ==
  /\ resp' = code
  /\ cache' = [u \in Users |-> FALSE]
  /\ UNCHANGED <<hubVars, callVars, configured, alive, credits, initCredits, ledger, jobs, task,
                 notif, inflight, debited>>

\* A request that ends before anything is written.
Reject(code) ==
  /\ resp' = code
  /\ UNCHANGED <<hubVars, callVars, configured, alive, credits, initCredits, ledger, jobs, task,
                 notif, cache, inflight, debited>>

\* The goroutine of a job and the variables its closure shares with the
\* request handler: generation and user are the handler's own variables.
\* snapshot is the status serialised into the handler's response ("" until
\* the handler has built it), ticks the ticker firings WaitForCompletion saw.
Task(pc, g, userCredits, snapshot) ==
  [pc |-> pc, generation |-> g, userCredits |-> userCredits, videoURL |-> "",
   snapshot |-> snapshot, ticks |-> 0]

\* Variant: the demo path leaves the listing cache as it is.
CreateAndLaunch_DemoKeepsCache(u, g, startPc, returns) ==
  /\ IF ~configured
     THEN LET done == [g EXCEPT !.Status = StatusCompleted,
                                !.OutputURL = "demo"] IN
          /\ jobs' = Append(jobs, done)
          /\ task' = Append(task, Task("demo", done, credits[u], done.Status))
          /\ notif' = Append(notif, <<"started", "completed">>)
          /\ debited' = Append(debited, 0)
          /\ resp' = StatusOK
          /\ UNCHANGED <<hubVars, callVars, configured, alive, credits,
                         initCredits, ledger, cache, inflight>>
     ELSE /\ jobs' = Append(jobs, g)
          /\ task' = Append(task, Task(startPc, g, credits[u],
                                       IF returns THEN g.Status ELSE ""))
          /\ notif' = Append(notif, <<"started">>)
          /\ debited' = Append(debited, 0)
          /\ resp' = IF returns THEN StatusAccepted ELSE 0
          /\ UNCHANGED <<hubVars, callVars, configured, alive, credits,
                         initCredits, ledger, cache, inflight>>

\* Creation of the job row, "started", then demo completion (which answers
\* OK in the handler itself) or the go statement.  With returns the handler's
\* return statement, which serialises generation into the Accepted response,
\* runs before the goroutine takes its first step; without it the return
\* statement is the later step Return(j).
CreateAndLaunch(u, g, startPc, returns) ==
  /\ IF ~configured
     THEN LET done == [g EXCEPT !.Status = StatusCompleted,
                                !.OutputURL = "demo"] IN
          /\ jobs' = Append(jobs, done)
          /\ task' = Append(task, Task("demo", done, credits[u], done.Status))
          /\ notif' = Append(notif, <<"started", "completed">>)
          /\ cache' = DeletePattern(cache, u)
          /\ debited' = Append(debited, 0)
          /\ resp' = StatusOK
          /\ UNCHANGED <<hubVars, callVars, configured, alive, credits,
                         initCredits, ledger, inflight>>
     ELSE /\ jobs' = Append(jobs, g)
          /\ task' = Append(task, Task(startPc, g, credits[u],
                                       IF returns THEN g.Status ELSE ""))
          /\ notif' = Append(notif, <<"started">>)
          /\ debited' = Append(debited, 0)
          /\ resp' = IF returns THEN StatusAccepted ELSE 0
          /\ UNCHANGED <<hubVars, callVars, configured, alive, credits,
                         initCredits, ledger, cache, inflight>>

\* return c.Status(fiber.StatusAccepted).JSON({..., generation.ToResponse()}):
\* the handler reads the generation variable that the goroutine writes, with
\* no synchronisation between the two.
Return(j) ==
  /\ alive
  /\ j \in JobIds
  /\ task[j].snapshot = ""
  /\ task' = [task EXCEPT ![j].snapshot = task[j].generation.Status]
  /\ resp' = StatusAccepted
  /\ UNCHANGED <<hubVars, callVars, configured, alive, credits, initCredits,
                 ledger, jobs, notif, cache, inflight, debited>>

\* POST /music/generate
SubmitMusic(u, returns) ==
  /\ alive
  /\ Len(jobs) < MaxJobs
  /\ IF u \notin Users THEN Reject(StatusNotFound)
     ELSE IF InsufficientCredits(credits[u], MusicCost)
          THEN Reject(StatusPaymentRequired)
          ELSE CreateAndLaunch(u, Generation(u, TypeMusic, MusicCost, 0),
                               "music_start", returns)

\* POST /video/generate
SubmitVideo(u, words, duration, returns) ==
  /\ alive
  /\ Len(jobs) < MaxJobs
  /\ LET creditCost == IF words # 0 THEN VideoNarrationCost ELSE VideoCost
         d == IF duration = 0 THEN DefaultDuration ELSE duration
     IN IF u \notin Users THEN Reject(StatusNotFound)
        ELSE IF InsufficientCredits(credits[u], creditCost)
             THEN Reject(StatusPaymentRequired)
             ELSE IF words # 0 /\ CalculateOptimalSpeed(words, d).err
                  THEN Reject(StatusBadRequest)
                  ELSE CreateAndLaunch(u, Generation(u, TypeVideo, creditCost, words),
                                       "video_start", returns)

\* ------------------------------------------------------------ pipelines
Running(j, at) == alive /\ j \in JobIds /\ task[j].pc = at

Owner(j) == task[j].generation.UserID

\* Variant: a failure block that returns without notifying.
Fail_NoNotify(j, msg) ==
  LET g == [task[j].generation EXCEPT !.Status = StatusFailed,
                                      !.ErrorMessage = msg] IN
  /\ task' = [task EXCEPT ![j].generation = g, ![j].pc = "done"]
  /\ jobs' = Save(jobs, j, g)
  /\ cache' = DeletePattern(cache, Owner(j))
  /\ resp' = 0
  /\ UNCHANGED <<hubVars, callVars, configured, alive, credits, initCredits, ledger, notif,
                 inflight, debited>>

\* The failure block: Status = Failed, db.Save, DeletePattern, "failed", return.
Fail(j, msg) ==
  LET g == [task[j].generation EXCEPT !.Status = StatusFailed,
                                      !.ErrorMessage = msg] IN
  /\ task' = [task EXCEPT ![j].generation = g, ![j].pc = "done"]
  /\ jobs' = Save(jobs, j, g)
  /\ cache' = DeletePattern(cache, Owner(j))
  /\ notif' = SendToUser(notif, j, <<"failed">>)
  /\ resp' = 0
  /\ UNCHANGED <<hubVars, callVars, configured, alive, credits, initCredits, ledger, inflight,
                 debited>>

\* The completion block up to the cache invalidation: Status = Completed,
\* db.Save, DeletePattern; the debit statements follow.
Complete(j, g) ==
  LET c == [g EXCEPT !.Status = StatusCompleted] IN
  /\ task' = [task EXCEPT ![j].generation = c, ![j].pc = "debit"]
  /\ jobs' = Save(jobs, j, c)
  /\ cache' = DeletePattern(cache, Owner(j))
  /\ resp' = 0
  /\ UNCHANGED <<hubVars, callVars, configured, alive, credits, initCredits, ledger, notif,
                 inflight, debited>>

\* An unrecovered panic inside a goroutine ends the whole process.
Panic(j) ==
  /\ alive' = FALSE
  /\ task' = [task EXCEPT ![j].pc = "panicked"]
  /\ resp' = 0
  /\ UNCHANGED <<hubVars, callVars, configured, credits, initCredits, ledger, jobs, notif, cache,
                 inflight, debited>>

\* Only the goroutine's own variables and the notification log change.
Local(j, g, nextPc, msgs) ==
  /\ task' = [task EXCEPT ![j].generation = g, ![j].pc = nextPc]
  /\ notif' = SendToUser(notif, j, msgs)
  /\ resp' = 0
  /\ UNCHANGED <<hubVars, callVars, configured, alive, credits, initCredits, ledger, jobs, cache,
                 inflight, debited>>

\* colors: the fixed palette of the cover placeholder
Palette == <<"6366f1", "8b5cf6", "ec4899", "f43f5e", "f97316",
             "eab308", "22c55e", "14b8a6", "06b6d4", "3b82f6">>

\* colors[int(generation.ID) % len(colors)], the colour of the placeholder URL
PlaceholderCover(j) == Palette[(j % Len(Palette)) + 1]

MusicOutcomes == {"err", "audio", "badhex", "writefail", "empty"}
ArtOutcomes == {"ok", "err", "panic"}

\* go func(): "Creating music..." and the call of minimax.GenerateMusic
MusicStart(j) ==
  /\ Running(j, "music_start")
  /\ Local(j, task[j].generation, "music_call", <<"progress">>)

\* minimax.GenerateMusic returned; decode, store, then ask for the album art
MusicGenerate(j, outcome) ==
  /\ Running(j, "music_call")
  /\ CASE outcome = "err" -> Fail(j, "error")
       [] outcome = "badhex" -> Fail(j, "error")
       [] outcome = "writefail" -> Fail(j, "error")
       [] OTHER ->
            LET audioURL == IF outcome = "audio" THEN "audio" ELSE ""
            IN Local(j, [task[j].generation EXCEPT !.OutputURL = audioURL],
                     "music_art", <<"progress">>)

\* minimax.GenerateImage returned (or panicked on a short response body)
MusicArt(j, outcome) ==
  /\ Running(j, "music_art")
  /\ IF outcome = "panic" THEN Panic(j)
     ELSE Complete(j, [task[j].generation EXCEPT
                         !.ThumbnailURL = IF outcome = "ok" THEN "art"
                                          ELSE PlaceholderCover(j)])

\* results of minimax.WaitForCompletion: a status with a download URL, a
\* status with neither file id nor download URL, or an error
PollOutcomes == {"ok", "emptyurl", "timeout", "jobfailed", "lookupfail"}
PollSuccesses == {"ok", "emptyurl"}

\* go func(): "Generating video..." and the call of minimax.GenerateVideo
VideoStart(j) ==
  /\ Running(j, "video_start")
  /\ Local(j, task[j].generation, "video_call", <<"progress">>)

\* minimax.GenerateVideo returned; the task id is saved before polling
VideoGenerate(j, ok) ==
  /\ Running(j, "video_call")
  /\ IF ~ok THEN Fail(j, "error")
     ELSE LET g == [task[j].generation EXCEPT !.MiniMaxJobID = "task"] IN
          /\ task' = [task EXCEPT ![j].generation = g, ![j].pc = "video_poll"]
          /\ jobs' = Save(jobs, j, g)
          /\ cache' = DeletePattern(cache, Owner(j))
          /\ resp' = 0
          /\ UNCHANGED <<hubVars, callVars, configured, alive, credits, initCredits, ledger, notif,
                         inflight, debited>>

\* videoURL := status.File.DownloadURL
DownloadURL(outcome) == IF outcome = "ok" THEN "video" ELSE ""

\* minimax.WaitForCompletion returned
VideoPoll(j, outcome) ==
  /\ Running(j, "video_poll")
  /\ IF outcome \notin PollSuccesses THEN Fail(j, "error")
     ELSE IF task[j].generation.Narration # 0
          THEN /\ task' = [task EXCEPT ![j].videoURL = DownloadURL(outcome),
                                       ![j].pc = "video_tts"]
               /\ notif' = SendToUser(notif, j, <<"progress">>)
               /\ resp' = 0
               /\ UNCHANGED <<hubVars, callVars, configured, alive, credits, initCredits, ledger,
                              jobs, cache, inflight, debited>>
          ELSE Complete(j, [task[j].generation EXCEPT
                              !.OutputURL = DownloadURL(outcome)])

TickOutcomes == {"pending", "lookuperr"}

\* WaitForCompletion, one ticker firing that leaves the loop running: the
\* deadline has not passed and GetTaskStatus failed (continue) or reported a
\* status that is neither a success nor a failure.  The ticker fires every
\* 5 seconds, so at most PollTicks firings come before the deadline.
VideoTick(j, outcome) ==
  /\ Running(j, "video_poll")
  /\ task[j].ticks < PollTicks
  /\ task' = [task EXCEPT ![j].ticks = @ + 1]
  /\ resp' = 0
  /\ UNCHANGED <<hubVars, callVars, configured, alive, credits, initCredits,
                 ledger, jobs, notif, cache, inflight, debited>>

\* Variant: a failed narration call takes the failure block.
VideoTTS_FailsJob(j, ok) ==
  /\ Running(j, "video_tts")
  /\ IF ok THEN Local(j, task[j].generation, "video_mux", <<"progress">>)
     ELSE Fail(j, "TTS failed")

\* minimax.GenerateTTSWithSpeed returned
VideoTTS(j, ok) ==
  /\ Running(j, "video_tts")
  /\ IF ok THEN Local(j, task[j].generation, "video_mux", <<"progress">>)
     ELSE Complete(j, [task[j].generation EXCEPT
                         !.ErrorMessage = "TTS failed",
                         !.OutputURL = task[j].videoURL])

\* minimax.CombineVideoWithAudio returned; its download of an empty URL
\* always fails
VideoMux(j, ok) ==
  /\ Running(j, "video_mux")
  /\ ok => task[j].videoURL # ""
  /\ IF ok THEN Complete(j, [task[j].generation EXCEPT !.OutputURL = "muxed"])
     ELSE Complete(j, [task[j].generation EXCEPT
                         !.ErrorMessage = "Combine failed",
                         !.OutputURL = task[j].videoURL])

\* ------------------------------------------------------- debit and ledger
\* Variant: the video pipeline debits the music literal.
DebitAmount_AlwaysOne(j) == 1

\* the amount of the UPDATE: the literal 1 (music) or creditCost (video)
DebitAmount(j) ==
  IF task[j].generation.Type = TypeMusic THEN 1
  ELSE task[j].generation.CreditsCost

\* Variant: the UPDATE leaves the balance as it is.
Debit_KeepsBalance(j) ==
  /\ Running(j, "debit")
  /\ debited' = [debited EXCEPT ![j] = @ + 1]
  /\ task' = [task EXCEPT ![j].pc = "ledger"]
  /\ resp' = 0
  /\ UNCHANGED <<hubVars, callVars, configured, alive, credits, initCredits,
                 ledger, jobs, notif, cache, inflight>>

\* db.Model(&user).Update("credits", gorm.Expr("credits - ?", cost)):
\* UPDATE users SET credits = credits - cost WHERE id = user.ID.  The
\* expression is evaluated by the database; the goroutine's user.Credits
\* keeps the value loaded by the request handler.
Debit(j) ==
  /\ Running(j, "debit")
  /\ credits' = [credits EXCEPT ![Owner(j)] = @ - DebitAmount(j)]
  /\ debited' = [debited EXCEPT ![j] = @ + 1]
  /\ task' = [task EXCEPT ![j].pc = "ledger"]
  /\ resp' = 0
  /\ UNCHANGED <<hubVars, callVars, configured, alive, initCredits, ledger, jobs, notif, cache,
                 inflight>>

\* BalanceBefore: user.Credits
BalanceBefore(j) == task[j].userCredits

\* Variant: BalanceAfter computed with the base video cost.
BalanceAfter_BaseCost(j) ==
  task[j].userCredits -
    (IF task[j].generation.Type = TypeMusic THEN MusicCost ELSE VideoCost)

\* BalanceAfter: user.Credits - cost
BalanceAfter(j) == task[j].userCredits - DebitAmount(j)

\* db.Create(&models.CreditTransaction{...}) and "completed"
Ledger(j) ==
  /\ Running(j, "ledger")
  /\ ledger' = Append(ledger, CreditTransaction(Owner(j), -DebitAmount(j), j,
                                                BalanceBefore(j), BalanceAfter(j)))
  /\ task' = [task EXCEPT ![j].pc = "done"]
  /\ notif' = SendToUser(notif, j, <<"completed">>)
  /\ resp' = 0
  /\ UNCHANGED <<hubVars, callVars, configured, alive, credits, initCredits, jobs, cache,
                 inflight, debited>>

\* ------------------------------------------- handlers rewriting a job row
\* Variant: the row is looked up by id alone.
Find_AnyOwner(u, j) == j \in JobIds /\ ~jobs[j].Deleted

\* db.Where("id = ? AND user_id = ?", id, userID).First(&generation)
Find(u, j) == j \in JobIds /\ ~jobs[j].Deleted /\ jobs[j].UserID = u

\* ToggleFavorite / TogglePublic up to the loaded row
ToggleRead(u, j, op) ==
  /\ alive
  /\ inflight = NoReq
  /\ IF Find(u, j)
     THEN /\ inflight' = [op |-> op, id |-> j, generation |-> jobs[j]]
          /\ resp' = 0
          /\ UNCHANGED <<hubVars, callVars, configured, alive, credits, initCredits, ledger, jobs,
                         task, notif, cache, debited>>
     ELSE Reject(StatusNotFound)

\* ToggleFavorite: flip, db.Save (every column), DeletePattern
\* TogglePublic:   flip, db.Save (every column)
ToggleWrite ==
  /\ alive
  /\ inflight # NoReq
  /\ LET g0 == inflight.generation
         g == IF inflight.op = "favorite"
              THEN [g0 EXCEPT !.IsFavorite = ~@]
              ELSE [g0 EXCEPT !.IsPublic = ~@]
     IN /\ jobs' = Save(jobs, inflight.id, g)
        /\ cache' = IF inflight.op = "favorite"
                    THEN DeletePattern(cache, g.UserID) ELSE cache
  /\ inflight' = NoReq
  /\ resp' = StatusOK
  /\ UNCHANGED <<hubVars, callVars, configured, alive, credits, initCredits, ledger, task, notif,
                 debited>>

\* DeleteGeneration: First by id and owner, then the soft delete
DeleteGeneration(u, j) ==
  /\ alive
  /\ IF Find(u, j)
     THEN /\ jobs' = [jobs EXCEPT ![j].Deleted = TRUE]
          /\ resp' = StatusOK
          /\ UNCHANGED <<hubVars, callVars, configured, alive, credits, initCredits, ledger, task,
                         notif, cache, inflight, debited>>
     ELSE Reject(StatusNotFound)

\* GetGenerations on a cache miss: the listing is read and cached
GetGenerations(u) ==
  /\ alive
  /\ u \in Users
  /\ ~cache[u]
  /\ cache' = [cache EXCEPT ![u] = TRUE]
  /\ resp' = StatusOK
  /\ UNCHANGED <<hubVars, callVars, configured, alive, credits, initCredits, ledger, jobs, task,
                 notif, inflight, debited>>

\* -------------------------------- GetGenerations, statement by statement
\* responses: the status of every row of user u, in row order
ListingOf(u) ==
  [j \in JobIds |-> IF jobs[j].UserID = u /\ ~jobs[j].Deleted
                    THEN jobs[j].Status ELSE ""]

\* cache.Cache.Get misses, then the database is read
ListRead(u) ==
  /\ alive
  /\ lister.pc = "idle"
  /\ ~cache[u]
  /\ lister' = [pc |-> "read", user |-> u, view |-> ListingOf(u),
                stored |-> lister.stored]
  /\ resp' = 0
  /\ UNCHANGED <<hubVars, speedCall, videoReq, poller, senders, limiter, configured,
                 alive, credits, initCredits, ledger, jobs, task, notif, cache,
                 inflight, debited>>

\* cache.Cache.Set(cacheKey, result, 30 s) with what was read, and the reply
ListSet ==
  /\ alive
  /\ lister.pc = "read"
  /\ cache' = [cache EXCEPT ![lister.user] = TRUE]
  /\ lister' = [pc |-> "idle",
                stored |-> [lister.stored EXCEPT ![lister.user] = lister.view]]
  /\ resp' = StatusOK
  /\ UNCHANGED <<hubVars, speedCall, videoReq, poller, senders, limiter, configured,
                 alive, credits, initCredits, ledger, jobs, task, notif,
                 inflight, debited>>

\* ------------------------------------------------------- reading handlers
\* the user ids a valid token may carry: a user row is not needed
Callers == Users \cup {GhostUser}

\* GET /generations/:id: the row is returned when First finds it
GetGeneration(u, j) ==
  /\ alive
  /\ resp' = IF Find(u, j) THEN StatusOK ELSE StatusNotFound
  /\ UNCHANGED <<hubVars, callVars, configured, alive, credits, initCredits,
                 ledger, jobs, task, notif, cache, inflight, debited>>

\* Where("is_public = ? AND status = ?", true, completed) on live rows
PublicRows ==
  {j \in JobIds : /\ ~jobs[j].Deleted
                  /\ jobs[j].IsPublic
                  /\ jobs[j].Status = StatusCompleted}

\* GET /explore: the public rows are returned
GetPublicGenerations ==
  /\ alive
  /\ resp' = StatusOK
  /\ UNCHANGED <<hubVars, callVars, configured, alive, credits, initCredits,
                 ledger, jobs, task, notif, cache, inflight, debited>>

\* ------------------------------------------------------ notification hub
\* the orders in which a range loop may visit the entries of hub.clients
Orders ==
  {o \in [1..MaxConns -> Conns] : \A a, b \in 1..MaxConns : a # b => o[a] # o[b]}

\* client.Conn.WriteJSON(message); the error it returns is dropped
WriteJSON(box, c) == IF c \in broken THEN box ELSE [box EXCEPT ![c] = @ + 1]

\* Variant: the loop ends at the first connection whose write fails.
RECURSIVE SendLoop_StopsAtError(_, _, _, _)
SendLoop_StopsAtError(order, i, u, box) ==
  IF i > Len(order) THEN box
  ELSE IF clients[order[i]] = u
       THEN IF order[i] \in broken THEN box
            ELSE SendLoop_StopsAtError(order, i + 1, u, WriteJSON(box, order[i]))
       ELSE SendLoop_StopsAtError(order, i + 1, u, box)

\* for _, client := range h.clients { if client.UserID == userID { ... } }
RECURSIVE SendLoop(_, _, _, _)
SendLoop(order, i, u, box) ==
  IF i > Len(order) THEN box
  ELSE IF clients[order[i]] = u
       THEN SendLoop(order, i + 1, u, WriteJSON(box, order[i]))
       ELSE SendLoop(order, i + 1, u, box)

\* WSHub.Register, called when a websocket of user u is opened
Register(c, u) ==
  /\ alive
  /\ clients[c] = Unregistered
  /\ clients' = [clients EXCEPT ![c] = u]
  /\ inbox' = [inbox EXCEPT ![c] = 0]
  /\ sentTo' = 0
  /\ resp' = 0
  /\ UNCHANGED <<broken, callVars, configured, alive, credits, initCredits,
                 ledger, jobs, task, notif, cache, inflight, debited>>

\* WSHub.Unregister, deferred by WebSocketHandler until ReadMessage fails
Unregister(c) ==
  /\ alive
  /\ clients[c] # Unregistered
  /\ clients' = [clients EXCEPT ![c] = Unregistered]
  /\ broken' = broken \ {c}
  /\ sentTo' = 0
  /\ resp' = 0
  /\ UNCHANGED <<inbox, callVars, configured, alive, credits, initCredits,
                 ledger, jobs, task, notif, cache, inflight, debited>>

\* The peer of a registered connection goes away: from now on a write to the
\* connection returns an error, while the entry stays in hub.clients until
\* the read loop notices.
Break(c) ==
  /\ alive
  /\ clients[c] # Unregistered
  /\ c \notin broken
  /\ broken' = broken \cup {c}
  /\ sentTo' = 0
  /\ resp' = 0
  /\ UNCHANGED <<clients, inbox, callVars, configured, alive, credits,
                 initCredits, ledger, jobs, task, notif, cache, inflight, debited>>

\* WSHub.SendToUser(userID, message): one call, from RLock to RUnlock
BroadcastToUser(u, order) ==
  /\ alive
  /\ inbox' = SendLoop(order, 1, u, [c \in Conns |-> 0])
  /\ sentTo' = u
  /\ resp' = 0
  /\ UNCHANGED <<clients, broken, callVars, configured, alive, credits,
                 initCredits, ledger, jobs, task, notif, cache, inflight, debited>>

\* ---------------------------------------- SendToUser, statement by statement
\* what only the steps of the sending tasks change
SenderFrame ==
  /\ sentTo' = 0
  /\ resp' = 0
  /\ UNCHANGED <<clients, broken, inbox, speedCall, videoReq, poller, lister, limiter,
                 configured, alive, credits, initCredits, ledger, jobs, task,
                 notif, cache, inflight, debited>>

\* Variant: the writer does not wait for the readers.
MuLockFree_IgnoresReaders == TRUE

\* h.mu.Lock() can be taken: no task holds h.mu.RLock()
MuLockFree == \A s \in Senders : senders[s].pc = "idle"

\* h.mu.RLock() at the start of SendToUser(u, message) by task s; the range
\* loop will visit the entries the map has now
SendBegin(s, u) ==
  /\ alive
  /\ senders[s] = Idle
  /\ senders' = [senders EXCEPT ![s] =
                   [pc |-> "locked", user |-> u,
                    todo |-> {c \in Conns : clients[c] # Unregistered}]]
  /\ SenderFrame

\* Variant: the loop writes to every entry.
SendWriteBegin_AnyUser(s, c) ==
  /\ alive
  /\ senders[s].pc = "locked"
  /\ c \in senders[s].todo
  /\ senders' = [senders EXCEPT ![s] =
                   [pc |-> "writing", user |-> @.user,
                    todo |-> @.todo \ {c}, conn |-> c]]
  /\ SenderFrame

\* The loop reaches an entry c with client.UserID == userID and enters
\* client.Conn.WriteJSON(message); entries of other users are passed over.
SendWriteBegin(s, c) ==
  /\ alive
  /\ senders[s].pc = "locked"
  /\ c \in senders[s].todo
  /\ clients[c] = senders[s].user
  /\ senders' = [senders EXCEPT ![s] =
                   [pc |-> "writing", user |-> @.user,
                    todo |-> @.todo \ {c}, conn |-> c]]
  /\ SenderFrame

\* client.Conn.WriteJSON(message) returns
SendWriteEnd(s) ==
  /\ alive
  /\ senders[s].pc = "writing"
  /\ senders' = [senders EXCEPT ![s] =
                   [pc |-> "locked", user |-> @.user, todo |-> @.todo]]
  /\ SenderFrame

\* no entry of the user is left: the loop ends, h.mu.RUnlock()
SendEnd(s) ==
  /\ alive
  /\ senders[s].pc = "locked"
  /\ \A c \in senders[s].todo : clients[c] # senders[s].user
  /\ senders' = [senders EXCEPT ![s] = Idle]
  /\ SenderFrame

\* ------------------------------------------------------- the rate limiter
Limits == 0..MaxLimit
RateClients == 1..MaxRateClients
NoInfo == [count |-> 0, lastReset |-> -1]
NoReply == [client |-> 0]

\* rl.window, in clock ticks
Window == 2

\* what only the limiter's steps change
LimiterFrame ==
  /\ resp' = 0
  /\ UNCHANGED <<hubVars, speedCall, videoReq, poller, senders, lister,
                 configured, alive, credits, initCredits, ledger, jobs, task,
                 notif, cache, inflight, debited>>

\* now.Sub(info.lastReset) > rl.window
WindowOver(info) == limiter.now - info.lastReset > Window

\* newRateLimiter(limit, window)
NewRateLimiter(limit) ==
  /\ alive
  /\ limiter = NoLimiter
  /\ limiter' = [limit |-> limit, now |-> 0,
                 requests |-> [c \in RateClients |-> NoInfo],
                 granted |-> [c \in RateClients |-> 0],
                 reply |-> NoReply]
  /\ LimiterFrame

\* time passes
ClockTick ==
  /\ alive
  /\ limiter # NoLimiter
  /\ limiter.now < MaxClock
  /\ limiter' = [limiter EXCEPT !.now = @ + 1, !.reply = NoReply]
  /\ LimiterFrame

\* rateLimiter.cleanup: the entries whose window is over are deleted
Cleanup ==
  /\ alive
  /\ limiter # NoLimiter
  /\ limiter' = [limiter EXCEPT
                   !.requests = [c \in RateClients |->
                                   IF @[c] # NoInfo /\ WindowOver(@[c])
                                   THEN NoInfo ELSE @[c]],
                   !.reply = NoReply]
  /\ LimiterFrame

\* rateLimiter.isAllowed(clientID); granted counts the requests allowed to
\* the client since its window was started
IsAllowed(c) ==
  /\ alive
  /\ limiter # NoLimiter
  /\ LET info == limiter.requests[c]
         fresh == [count |-> 1, lastReset |-> limiter.now]
     IN limiter' =
          IF info = NoInfo \/ WindowOver(info)
          THEN [limiter EXCEPT
                  !.requests[c] = fresh,
                  !.granted[c] = 1,
                  !.reply = [client |-> c, allowed |-> TRUE,
                             remaining |-> limiter.limit - 1]]
          ELSE IF info.count >= limiter.limit
          THEN [limiter EXCEPT
                  !.reply = [client |-> c, allowed |-> FALSE, remaining |-> 0]]
          ELSE [limiter EXCEPT
                  !.requests[c].count = @ + 1,
                  !.granted[c] = @ + 1,
                  !.reply = [client |-> c, allowed |-> TRUE,
                             remaining |-> limiter.limit - (info.count + 1)]]
  /\ LimiterFrame

\* ------------------------------------------------- calls of pure functions
\* len(strings.Fields(text)) of the narrations tried
SpeedWords == (0..MaxWords) \cup {100, 300}

\* videoDuration: the handler replaces only 0, so negative values get here
SpeedDurations == ((-3)..MaxSpeedDuration) \cup {60}

\* Variant: the handler passes the recomputed speed on as it is.
HandlerSpeed_NoFloor(words, duration) ==
  CalculateOptimalSpeed(words, duration).speed10

\* optimalSpeed of the narration step, in tenths: the recomputed speed, its
\* error ignored, raised to 1.0 when below
HandlerSpeed(words, duration) ==
  LET optimalSpeed == CalculateOptimalSpeed(words, duration).speed10
  IN IF optimalSpeed < 10 THEN 10 ELSE optimalSpeed

\* VoiceSetting.Speed of the narrated-audio request, in tenths
TTSRequestSpeed(speed10) ==
  IF speed10 < 5 THEN 5 ELSE IF speed10 > 20 THEN 20 ELSE speed10

\* maxWords of the rejection message: int(float64(duration) * 2.5 * 1.3)
RejectionMaxWords(duration) == TruncDiv(13 * duration, 4)

\* one call of services.CalculateOptimalSpeed(text, videoDuration) by the
\* video handler, with what the handler derives from it: the speed of the
\* narrated-audio request and the maximum of the rejection message
EstimateSpeed(words, videoDuration) ==
  /\ alive
  /\ speedCall' = [fn |-> "CalculateOptimalSpeed", words |-> words,
                   videoDuration |-> videoDuration,
                   speed10 |-> CalculateOptimalSpeed(words, videoDuration).speed10,
                   err |-> CalculateOptimalSpeed(words, videoDuration).err,
                   tts10 |-> TTSRequestSpeed(HandlerSpeed(words, videoDuration)),
                   maxWords |-> RejectionMaxWords(videoDuration)]
  /\ resp' = 0
  /\ UNCHANGED <<hubVars, videoReq, poller, senders, lister, limiter, configured, alive, credits, initCredits,
                 ledger, jobs, task, notif, cache, inflight, debited>>

Hailuo02 == {"MiniMax-Hailuo-02", "hailuo-02"}
Models == {"", "video-01"} \cup Hailuo02
Resolutions == {"", "512P", "768P", "1080P"}
ClampDurations == (-1)..MaxClampDuration

\* model: "video-01" when empty
ModelOrDefault(model) == IF model = "" THEN "video-01" ELSE model

\* Variant: the 10 second allowance does not look at the resolution.
MaxDuration_IgnoresResolution(model, resolution) ==
  IF model \in Hailuo02 THEN 10 ELSE 6

\* maxDuration
MaxDuration(model, resolution) ==
  IF model \in Hailuo02 /\ resolution # "1080P" THEN 10 ELSE 6

\* Variant: the resolution is not forced when the duration exceeds 6.
VideoGenerationRequest_KeepsResolution(model, duration, resolution) ==
  LET m == ModelOrDefault(model)
      d0 == IF duration <= 0 THEN 6 ELSE duration
      d == IF d0 > MaxDuration(m, resolution) THEN MaxDuration(m, resolution) ELSE d0
  IN [Model |-> m, Duration |-> d,
      Resolution |-> IF m \in Hailuo02
                     THEN (IF resolution = "" THEN "768P" ELSE resolution)
                     ELSE ""]

\* reqBody of MiniMaxService.GenerateVideo; Resolution "" is a field left out
VideoGenerationRequest(model, duration, resolution) ==
  LET m == ModelOrDefault(model)
      d0 == IF duration <= 0 THEN 6 ELSE duration
      d == IF d0 > MaxDuration(m, resolution) THEN MaxDuration(m, resolution) ELSE d0
      r == IF d > 6 THEN "768P" ELSE resolution
  IN [Model |-> m, Duration |-> d,
      Resolution |-> IF m \in Hailuo02
                     THEN (IF r = "" THEN "768P" ELSE r)
                     ELSE ""]

\* one call of MiniMaxService.GenerateVideo up to the request it posts
SendVideoRequest(model, duration, resolution) ==
  /\ alive
  /\ configured
  /\ videoReq' = [fn |-> "GenerateVideo", model |-> model,
                  duration |-> duration, resolution |-> resolution,
                  body |-> VideoGenerationRequest(model, duration, resolution)]
  /\ resp' = 0
  /\ UNCHANGED <<hubVars, speedCall, poller, senders, lister, limiter, configured, alive, credits, initCredits,
                 ledger, jobs, task, notif, cache, inflight, debited>>

\* ------------------------------------------------------- the task poller
TickSeconds == 5
SuccessLabels == {"Success", "Completed"}
FailureLabels == {"Failed", "Error"}
Labels == SuccessLabels \cup FailureLabels \cup {"Processing", "Fail"}

\* timeout of the video pipeline, in seconds, for the model it runs with
PollTimeout(model) == IF model = "MiniMax-Hailuo-02" THEN 600 ELSE 300

\* time.Now().After(deadline), deadline = start + timeout: now counts the
\* whole ticker periods elapsed, and a tick is handled after its period ended
Expired == poller.now * TickSeconds >= poller.timeout

\* what only the other poller steps change
PollerFrame ==
  /\ resp' = 0
  /\ UNCHANGED <<hubVars, speedCall, videoReq, senders, lister, limiter, configured, alive,
                 credits, initCredits, ledger, jobs, task, notif, cache,
                 inflight, debited>>

\* return of WaitForCompletion
Returned(result, url) ==
  [poller EXCEPT !.pc = "returned", !.result = result, !.url = url]

\* minimax.WaitForCompletion(resp.TaskID, timeout) is entered: deadline and
\* ticker are set up
StartPoll(model) ==
  /\ alive
  /\ configured
  /\ poller = Idle
  /\ poller' = [pc |-> "waiting", model |-> ModelOrDefault(model),
                timeout |-> PollTimeout(ModelOrDefault(model)),
                now |-> 0, tick |-> FALSE, last |-> "", fileID |-> FALSE,
                lookups |-> 0, late |-> FALSE, result |-> "", url |-> ""]
  /\ PollerFrame

\* One ticker period ends: the ticker puts a tick into its channel of
\* capacity one (a tick that finds the channel full is dropped), whatever the
\* loop is doing.
TimePasses ==
  /\ alive
  /\ poller.pc \in {"waiting", "querying", "lookup"}
  /\ poller.now < MaxPeriods
  /\ poller' = [poller EXCEPT !.now = @ + 1, !.tick = TRUE]
  /\ PollerFrame

\* Variant: the status is queried before the deadline is looked at.
TickReceive_QueriesFirst ==
  /\ alive
  /\ poller.pc = "waiting"
  /\ poller.tick
  /\ poller' = [poller EXCEPT !.tick = FALSE, !.pc = "querying",
                              !.late = @ \/ Expired]
  /\ PollerFrame

\* case <-ticker.C: the deadline check, then the call of GetTaskStatus
TickReceive ==
  /\ alive
  /\ poller.pc = "waiting"
  /\ poller.tick
  /\ poller' = IF Expired
               THEN [Returned("timeout", "") EXCEPT !.tick = FALSE]
               ELSE [poller EXCEPT !.tick = FALSE, !.pc = "querying",
                                   !.late = @ \/ Expired]
  /\ PollerFrame

\* Variant: a failed status query ends the loop with its error.
QueryReturn_ErrorEndsLoop(answer, hasFile) ==
  /\ alive
  /\ poller.pc = "querying"
  /\ poller' =
       IF answer = "queryerr"
       THEN [Returned("queryerr", "") EXCEPT !.last = answer]
       ELSE IF answer \in SuccessLabels
       THEN IF hasFile
            THEN [poller EXCEPT !.last = answer, !.fileID = TRUE,
                                !.pc = "lookup", !.lookups = @ + 1]
            ELSE [Returned("success", "own") EXCEPT !.last = answer]
       ELSE IF answer \in FailureLabels
       THEN [Returned("jobfailed", "") EXCEPT !.last = answer]
       ELSE [poller EXCEPT !.last = answer, !.pc = "waiting"]
  /\ PollerFrame

\* GetTaskStatus returned: an error (continue), or a status with its label
\* and, on a success label, with or without a FileID
QueryReturn(answer, hasFile) ==
  /\ alive
  /\ poller.pc = "querying"
  /\ poller' =
       IF answer = "queryerr"
       THEN [poller EXCEPT !.last = answer, !.pc = "waiting"]
       ELSE IF answer \in SuccessLabels
       THEN IF hasFile
            THEN [poller EXCEPT !.last = answer, !.fileID = TRUE,
                                !.pc = "lookup", !.lookups = @ + 1]
            ELSE [Returned("success", "own") EXCEPT !.last = answer]
       ELSE IF answer \in FailureLabels
       THEN [Returned("jobfailed", "") EXCEPT !.last = answer]
       ELSE [poller EXCEPT !.last = answer, !.pc = "waiting"]
  /\ PollerFrame

\* Variant: the looked-up URL is dropped.
LookupReturn_KeepsOwnURL(ok) ==
  /\ alive
  /\ poller.pc = "lookup"
  /\ poller' = IF ok THEN Returned("success", "own")
               ELSE Returned("lookuperr", "")
  /\ PollerFrame

\* GetFileDownloadURL returned
LookupReturn(ok) ==
  /\ alive
  /\ poller.pc = "lookup"
  /\ poller' = IF ok THEN Returned("success", "looked-up")
               ELSE Returned("lookuperr", "")
  /\ PollerFrame

Submit(words, returns) ==
  \/ \E u \in Users \cup {GhostUser} : SubmitMusic(u, returns)
  \/ \E u \in Users \cup {GhostUser}, w \in words, d \in Durations :
       SubmitVideo(u, w, d, returns)

\* The pipeline steps of jobs without narration.
PipelineSilent ==
  \/ \E j \in 1..MaxJobs : MusicStart(j)
  \/ \E j \in 1..MaxJobs, o \in MusicOutcomes : MusicGenerate(j, o)
  \/ \E j \in 1..MaxJobs, o \in ArtOutcomes : MusicArt(j, o)
  \/ \E j \in 1..MaxJobs : VideoStart(j)
  \/ \E j \in 1..MaxJobs, ok \in BOOLEAN : VideoGenerate(j, ok)
  \/ \E j \in 1..MaxJobs, o \in PollOutcomes : VideoPoll(j, o)
  \/ \E j \in 1..MaxJobs : Debit(j)
  \/ \E j \in 1..MaxJobs : Ledger(j)

Pipeline ==
  \/ PipelineSilent
  \/ \E j \in 1..MaxJobs, ok \in BOOLEAN : VideoTTS(j, ok)
  \/ \E j \in 1..MaxJobs, ok \in BOOLEAN : VideoMux(j, ok)

\* the statuses of a rejected submission
Rejections == {StatusNotFound, StatusPaymentRequired, StatusBadRequest}

\* userID := c.Locals("userID"): the handlers treat every account alike and
\* all accounts start with the same balance, so behaviours that differ only
\* by a renaming of the accounts are the same behaviour.  One of each class is
\* kept: the account u submits its first job after the accounts below u.
UsersInOrder(js) ==
  \A j \in 1..Len(js) :
    \A u \in 1..(js[j].UserID - 1) : \E k \in 1..(j - 1) : js[k].UserID = u

\* Accepted submissions and pipelines of up to MaxJobs jobs.  A rejected
\* submission changes no variable that an action reads; the specifications
\* below take them.
Next ==
  \/ Submit(WordCounts, TRUE) /\ resp' \notin Rejections /\ UsersInOrder(jobs')
  \/ Pipeline

Spec == Init /\ [][Next]_vars

\* The smaller specifications create at most MaxRowJobs jobs.
RowRoom ==
  \/ Len(jobs) < MaxRowJobs /\ UsersInOrder(jobs')
  \/ resp' \in Rejections

\* Submissions, pipelines and listings of up to MaxRowJobs jobs.
NextList ==
  \/ Submit(WordCounts, TRUE) /\ RowRoom
  \/ Pipeline
  \/ \E u \in Users : GetGenerations(u)

SpecList == Init /\ [][NextList]_vars

\* Jobs without narration, at most MaxRowJobs of them, and the handlers that
\* rewrite or delete a job row.
NextRows ==
  \/ Submit({0}, TRUE) /\ RowRoom
  \/ PipelineSilent
  \/ \E u \in Users, j \in 1..MaxRowJobs, op \in Ops : ToggleRead(u, j, op)
  \/ ToggleWrite
  \/ \E u \in Users, j \in 1..MaxRowJobs : DeleteGeneration(u, j)

SpecRows == Init /\ [][NextRows]_vars

\* One job whose request handler returns in a step of its own.
NextReply ==
  \/ Submit(WordCounts, FALSE) /\ RowRoom
  \/ \E j \in 1..MaxRowJobs : Return(j)
  \/ Pipeline

SpecReply == Init /\ [][NextReply]_vars

\* the steps of the pipeline goroutine of job j
TaskStep(j) ==
  \/ MusicStart(j)
  \/ \E o \in MusicOutcomes : MusicGenerate(j, o)
  \/ \E o \in ArtOutcomes : MusicArt(j, o)
  \/ VideoStart(j)
  \/ \E ok \in BOOLEAN : VideoGenerate(j, ok)
  \/ \E o \in TickOutcomes : VideoTick(j, o)
  \/ \E o \in PollOutcomes : VideoPoll(j, o)
  \/ \E ok \in BOOLEAN : VideoTTS(j, ok)
  \/ \E ok \in BOOLEAN : VideoMux(j, ok)
  \/ Debit(j)
  \/ Ledger(j)

NextLive ==
  \/ Submit(WordCounts, TRUE) /\ RowRoom
  \/ \E j \in 1..MaxRowJobs : TaskStep(j)

\* Every goroutine keeps being scheduled, every provider call returns and
\* the poll ticker keeps firing: a pipeline that can take a step takes one.
SpecLive ==
  Init /\ [][NextLive]_vars /\ \A j \in 1..MaxRowJobs : WF_vars(TaskStep(j))

\* The hub alone: connections come, break and go, messages are broadcast.
NextHub ==
  \/ \E c \in Conns, u \in Users : Register(c, u)
  \/ \E c \in Conns : Unregister(c)
  \/ \E c \in Conns : Break(c)
  \/ \E u \in Users, o \in Orders : BroadcastToUser(u, o)

SpecHub == Init /\ [][NextHub]_vars

\* Calls of the narration speed calculator.
NextSpeed == \E w \in SpeedWords, d \in SpeedDurations : EstimateSpeed(w, d)

SpecSpeed == Init /\ [][NextSpeed]_vars

\* Calls of the provider client's video request.
NextClamp ==
  \E m \in Models, d \in ClampDurations, r \in Resolutions :
    SendVideoRequest(m, d, r)

SpecClamp == Init /\ [][NextClamp]_vars

\* Jobs without narration, at most MaxRowJobs of them, with the listing that
\* fills the cache and the handlers that rewrite or delete a job row.
NextCache ==
  \/ Submit({0}, TRUE) /\ RowRoom
  \/ PipelineSilent
  \/ \E u \in Users : GetGenerations(u)
  \/ \E u \in Users, j \in 1..MaxRowJobs, op \in Ops : ToggleRead(u, j, op)
  \/ ToggleWrite
  \/ \E u \in Users, j \in 1..MaxRowJobs : DeleteGeneration(u, j)

SpecCache == Init /\ [][NextCache]_vars

\* One call of the task poller, with the clock.
NextPoll ==
  \/ \E m \in Models : StartPoll(m)
  \/ TimePasses
  \/ TickReceive
  \/ \E a \in Labels \cup {"queryerr"}, f \in BOOLEAN : QueryReturn(a, f)
  \/ \E ok \in BOOLEAN : LookupReturn(ok)

SpecPoll == Init /\ [][NextPoll]_vars

\* The hub with its lock: connections of several users come and go while
\* tasks are inside SendToUser.
NextHubTasks ==
  \/ \E c \in Conns, u \in HubUsers : MuLockFree /\ Register(c, u)
  \/ \E c \in Conns : MuLockFree /\ Unregister(c)
  \/ \E s \in Senders, u \in HubUsers : SendBegin(s, u)
  \/ \E s \in Senders, c \in Conns : SendWriteBegin(s, c)
  \/ \E s \in Senders : SendWriteEnd(s)
  \/ \E s \in Senders : SendEnd(s)

SpecHubTasks == Init /\ [][NextHubTasks]_vars

\* Jobs without narration and a listing request whose database read and
\* cache write are separate steps.
NextStale ==
  \/ Submit({0}, TRUE) /\ RowRoom
  \/ PipelineSilent
  \/ \E u \in Users : ListRead(u)
  \/ ListSet

SpecStale == Init /\ [][NextStale]_vars

\* One rate limiter, its clients, its cleanup and the clock.
NextRate ==
  \/ \E l \in Limits : NewRateLimiter(l)
  \/ ClockTick
  \/ Cleanup
  \/ \E c \in RateClients : IsAllowed(c)

SpecRate == Init /\ [][NextRate]_vars

\* Music jobs of up to MaxRowJobs, Completed at once without a provider key
\* and otherwise taken to the provider's answer (Processing or Failed), and
\* every handler that reads or rewrites job rows, called by the owner and by
\* other callers.
NextOwner ==
  \/ (\E u \in Callers : SubmitMusic(u, TRUE)) /\ RowRoom
  \/ \E j \in 1..MaxRowJobs : MusicStart(j)
  \/ \E j \in 1..MaxRowJobs, o \in MusicOutcomes : MusicGenerate(j, o)
  \/ \E u \in Callers, j \in 1..MaxRowJobs : GetGeneration(u, j)
  \/ GetPublicGenerations
  \/ \E u \in Callers, j \in 1..MaxRowJobs, op \in Ops : ToggleRead(u, j, op)
  \/ ToggleWrite
  \/ \E u \in Callers, j \in 1..MaxRowJobs : DeleteGeneration(u, j)

SpecOwner == Init /\ [][NextOwner]_vars

\* ================================================================ claims
Terminal == {StatusCompleted, StatusFailed}

\* the pipeline task of job j ran to its end
Ended(j) == task[j].pc = "done"

\* job j has left the submission handler or its pipeline for good
Final(j) == task[j].pc \in {"done", "demo"}

EntriesOf(j) == {i \in 1..Len(ledger) : ledger[i].GenerationID = j}

DebitEntryExists(j) ==
  \E i \in EntriesOf(j) : ledger[i].Amount = -jobs[j].CreditsCost

RECURSIVE SumAmounts(_, _)
SumAmounts(u, n) ==
  IF n = 0 THEN 0
  ELSE SumAmounts(u, n - 1) + (IF ledger[n].UserID = u THEN ledger[n].Amount ELSE 0)

EntriesOfUser(u) == {i \in 1..Len(ledger) : ledger[i].UserID = u}

LastEntryOf(u) == CHOOSE i \in EntriesOfUser(u) : \A k \in EntriesOfUser(u) : k <= i

\* C1 (as stated): for every job that reached its final state, a ledger entry
\* with amount = -cost linked to the job exists iff the job's status is
\* Completed, the unconfigured-provider path included.
C1_LedgerIffCompleted ==
  \A j \in JobIds :
    Final(j) => (DebitEntryExists(j) <=> jobs[j].Status = StatusCompleted)

\* C1 (amended): for every job whose pipeline task ran to its end, a ledger
\* entry with amount = -cost linked to the job exists iff the task made the
\* Completed transition, and no entry is linked to it when the task made the
\* Failed transition; a job completed on the unconfigured-provider path has
\* no ledger entry.
C1_LedgerIffPipelineCompleted ==
  \A j \in JobIds :
    /\ Ended(j) =>
         /\ DebitEntryExists(j) <=> task[j].generation.Status = StatusCompleted
         /\ task[j].generation.Status = StatusFailed => EntriesOf(j) = {}
    /\ task[j].pc = "demo" =>
         /\ jobs[j].Status = StatusCompleted
         /\ EntriesOf(j) = {}

C1_Witness ==
  \E j, k \in JobIds :
    /\ Ended(j) /\ task[j].generation.Status = StatusCompleted
    /\ jobs[j].Type = TypeVideo /\ DebitEntryExists(j)
    /\ Ended(k) /\ task[k].generation.Status = StatusFailed

\* C2: in every reachable state a user's stored balance is the initial
\* balance plus the sum of the amounts of the user's ledger entries.
C2_BalanceMatchesLedger ==
  \A u \in Users : credits[u] = initCredits[u] + SumAmounts(u, Len(ledger))

\* C3: no two ledger entries of one user record the same balance_before.
C3_DistinctBalanceBefore ==
  \A i, k \in 1..Len(ledger) :
    (i # k /\ ledger[i].UserID = ledger[k].UserID)
      => ledger[i].BalanceBefore # ledger[k].BalanceBefore

\* C4: when a user has a ledger entry and none of the user's debits is between
\* its balance write and its ledger write, the stored balance equals the
\* balance_after of the user's most recent entry.
C4_BalanceIsLastAfter ==
  \A u \in Users :
    (/\ EntriesOfUser(u) # {}
     /\ \A j \in JobIds : Owner(j) = u => task[j].pc # "ledger")
      => credits[u] = ledger[LastEntryOf(u)].BalanceAfter

\* C5: every ledger entry satisfies balance_after = balance_before + amount.
C5_EntryArithmetic ==
  \A i \in 1..Len(ledger) :
    ledger[i].BalanceAfter = ledger[i].BalanceBefore + ledger[i].Amount

C5_Witness ==
  \E i, k \in 1..Len(ledger) :
    /\ jobs[ledger[i].GenerationID].Type = TypeMusic
    /\ jobs[ledger[k].GenerationID].Type = TypeVideo
    /\ ledger[k].Amount = -VideoCost

\* C6: the recorded cost of a job never changes; a balance changes only by
\* the debit of one job, which subtracts that job's recorded cost, happens at
\* most once per job and only in the task that made the Completed transition.
C6_CostFixedDebitedOnce ==
  [][/\ \A j \in JobIds : jobs'[j].CreditsCost = jobs[j].CreditsCost
     /\ \A j \in 1..Len(jobs') : debited'[j] <= 1
     /\ \A u \in Users :
          credits'[u] # credits[u] =>
            \E j \in JobIds :
              /\ jobs[j].UserID = u
              /\ task[j].generation.Status = StatusCompleted
              /\ jobs[j].Status = StatusCompleted
              /\ debited[j] = 0 /\ debited'[j] = 1
              /\ credits'[u] = credits[u] - jobs[j].CreditsCost
              /\ \A k \in JobIds \ {j} : debited'[k] = debited[k]]_vars

C6_Witness ==
  \E j \in JobIds :
    /\ debited[j] = 1
    /\ jobs[j].CreditsCost = VideoNarrationCost
    /\ credits[jobs[j].UserID] = initCredits[jobs[j].UserID] - VideoNarrationCost

\* C7: once the persisted status of a job is Completed or Failed it never
\* changes again.
C7_TerminalFinal ==
  [][\A j \in JobIds :
       jobs[j].Status \in Terminal => jobs'[j].Status = jobs[j].Status]_vars

IsProgress(s, i) == s[i] = "progress"

\* C8: the notifications of a job are "started", then only "progress", then
\* one of "completed"/"failed" as the last message, which is there exactly
\* when the job has left the handler or the pipeline for good.
C8_NotificationOrder ==
  \A j \in JobIds :
    LET s == notif[j] IN
    /\ Len(s) >= 1 /\ s[1] = "started"
    /\ \A i \in 2..(Len(s) - 1) : IsProgress(s, i)
    /\ Len(s) >= 2 => s[Len(s)] \in {"progress", "completed", "failed"}
    /\ Final(j) <=> (Len(s) >= 2 /\ s[Len(s)] \in {"completed", "failed"})
    /\ Final(j) => (s[Len(s)] = "completed"
                      <=> task[j].generation.Status = StatusCompleted)

C8_Witness ==
  \E j, k \in JobIds :
    /\ notif[j] = <<"started", "progress", "progress", "progress", "completed">>
    /\ notif[k] = <<"started", "progress", "failed">>

\* C9: a fault raised inside the pipeline task of a job leaves the process
\* running and turns that job into Failed with a "failed" notification.
C9_FaultIsolated ==
  \A j \in JobIds :
    task[j].pc = "panicked" =>
      /\ alive
      /\ jobs[j].Status = StatusFailed
      /\ notif[j][Len(notif[j])] = "failed"

\* C10: a submission answered with NotFound, InsufficientCredits or
\* NarrationTooLong leaves the job rows, the balances, the ledger, the cache,
\* the notifications and the pipeline tasks as they were.
C10_RejectedSubmitMutatesNothing ==
  [][(Submit(WordCounts, TRUE) /\ resp' \in Rejections)
       => UNCHANGED <<jobs, credits, ledger, cache, notif, task, debited>>]_vars

C10_Witness ==
  /\ resp = StatusBadRequest
  /\ \E u \in Users : cache[u]
  /\ \E j \in JobIds : task[j].pc \notin {"done", "demo"}

\* C11 (as stated): with the provider configured, the handler can return
\* Accepted whatever step its pipeline task is at, and the status carried in
\* the Accepted response is Processing under every interleaving of the
\* returning handler and the launched pipeline task.
C11_AcceptedSnapshotProcessing ==
  configured =>
    \A j \in JobIds :
      /\ (alive /\ task[j].snapshot = "") => ENABLED Return(j)
      /\ task[j].snapshot \in {"", StatusProcessing}

\* C12: with the provider unconfigured, the step that creates a job stores it
\* Completed with the placeholder output, invalidates the owner's listing
\* cache, sends "started" then "completed", answers in the handler, launches
\* no pipeline task (the job never takes a step afterwards) and leaves every
\* balance and the ledger unchanged.
C12_DemoSubmitSynchronous ==
  [][/\ (~configured /\ Len(jobs') > Len(jobs)) =>
          LET j == Len(jobs') IN
          /\ jobs'[j].Status = StatusCompleted
          /\ jobs'[j].OutputURL = "demo"
          /\ task'[j].generation = jobs'[j]
          /\ ~cache'[jobs'[j].UserID]
          /\ notif'[j] = <<"started", "completed">>
          /\ task'[j].pc = "demo"
          /\ resp' = StatusOK
          /\ credits' = credits
          /\ ledger' = ledger
     /\ \A j \in JobIds :
          task[j].pc = "demo" =>
            /\ task'[j] = task[j]
            /\ jobs'[j] = jobs[j]
            /\ notif'[j] = notif[j]
            /\ debited'[j] = 0]_vars

C12_Witness ==
  /\ ~configured
  /\ resp = StatusOK
  /\ \E j \in JobIds :
       /\ task[j].pc = "demo"
       /\ jobs[j].Type = TypeVideo
       /\ jobs[j].CreditsCost = VideoNarrationCost
       /\ ~cache[jobs[j].UserID]
       /\ credits[jobs[j].UserID] = initCredits[jobs[j].UserID]

\* C13: one broadcast to a user writes the message once to every connection
\* registered for the user whose write does not fail, whatever the order of
\* the loop and wherever the failing connections come in it, writes to no
\* other connection, and returns normally (the process keeps running and the
\* registry is unchanged).
C13_BroadcastReachesAll ==
  [][sentTo' \in Users =>
       /\ \A c \in Conns :
            inbox'[c] = IF clients[c] = sentTo' /\ c \notin broken THEN 1 ELSE 0
       /\ alive'
       /\ clients' = clients]_vars

C13_Witness ==
  \E u \in Users, b \in Conns :
    /\ sentTo = u
    /\ Cardinality({c \in Conns : clients[c] = u}) = 3
    /\ broken = {b}
    /\ \A c \in Conns : inbox[c] = IF c = b THEN 0 ELSE 1

\* C14 (as stated): every job whose pipeline task was launched eventually has
\* status Completed or Failed, when every goroutine keeps running, every
\* provider call returns and the poll ticker keeps firing.
C14_LaunchedJobSettles ==
  \A j \in 1..MaxRowJobs :
    (j \in JobIds /\ task[j].pc # "demo")
      ~> (j \in JobIds /\ jobs[j].Status \in Terminal)

\* The part of C14 about the poll loop: a task inside WaitForCompletion
\* eventually leaves it (or the process has ended).
C14_PollLoopEnds ==
  \A j \in 1..MaxRowJobs :
    (j \in JobIds /\ task[j].pc = "video_poll")
      ~> (~alive \/ (j \in JobIds /\ task[j].pc # "video_poll"))

CountOf(s, m) == Cardinality({i \in 1..Len(s) : s[i] = m})

\* C15: a music job whose pipeline ran to its end and completed is stored
\* Completed with the output the task produced, was debited once, has exactly
\* one ledger entry, of amount -1 and of its owner, and exactly one
\* "completed" notification; when no other job of the owner was debited, the
\* owner's balance is the initial balance minus 1.
C15_MusicEndToEnd ==
  \A j \in JobIds :
    (/\ jobs[j].Type = TypeMusic
     /\ Ended(j)
     /\ task[j].generation.Status = StatusCompleted) =>
      /\ jobs[j].Status = StatusCompleted
      /\ jobs[j].OutputURL = task[j].generation.OutputURL
      /\ debited[j] = 1
      /\ Cardinality(EntriesOf(j)) = 1
      /\ \A i \in EntriesOf(j) :
           ledger[i].Amount = -1 /\ ledger[i].UserID = Owner(j)
      /\ CountOf(notif[j], "completed") = 1
      /\ CountOf(notif[j], "failed") = 0
      /\ (\A k \in JobIds \ {j} : Owner(k) = Owner(j) => debited[k] = 0)
           => credits[Owner(j)] = initCredits[Owner(j)] - 1

C15_Witness ==
  /\ configured
  /\ Len(jobs) = 1
  /\ jobs[1].Type = TypeMusic
  /\ Ended(1)
  /\ jobs[1].Status = StatusCompleted
  /\ jobs[1].OutputURL = "audio"
  /\ jobs[1].ThumbnailURL = "art"
  /\ credits[Owner(1)] = StartCredits - 1
  /\ Len(ledger) = 1

\* the target of the claims, in tenths: duration - 0.5, or duration when
\* that is not positive
ClaimTarget10(d) == IF 10 * d - 5 <= 0 THEN 10 * d ELSE 10 * d - 5

\* estimated/target > k/10, for estimated > target; a zero target makes the
\* quotient infinite
ClaimRequiredAbove(est10, t10, k) ==
  IF t10 > 0 THEN 10 * est10 > k * t10
  ELSE IF t10 = 0 THEN TRUE
  ELSE FALSE

\* C16: with estimated = words/2.5 and target as above, the result is 1.0
\* when estimated <= target; otherwise it is the error exactly when
\* required > 1.5 and it is 1.3 exactly when 1.3 < required <= 1.5
\* (100 words, 60 s: 1.0; 300 words, 60 s: the error).
C16_Thresholds ==
  speedCall # NoCall =>
    LET est10 == 4 * speedCall.words
        t10 == ClaimTarget10(speedCall.videoDuration)
        above15 == ClaimRequiredAbove(est10, t10, 15)
        above13 == ClaimRequiredAbove(est10, t10, 13)
    IN /\ est10 <= t10 => (~speedCall.err /\ speedCall.speed10 = 10)
       /\ est10 > t10 =>
            /\ speedCall.err <=> above15
            /\ (~speedCall.err /\ speedCall.speed10 = 13)
                 <=> (above13 /\ ~above15)
       /\ (speedCall.words = 100 /\ speedCall.videoDuration = 60)
            => (~speedCall.err /\ speedCall.speed10 = 10)
       /\ (speedCall.words = 300 /\ speedCall.videoDuration = 60)
            => speedCall.err

C16_Witness ==
  /\ speedCall # NoCall
  /\ speedCall.words = 18
  /\ speedCall.videoDuration = 6
  /\ speedCall.speed10 = 13
  /\ ~speedCall.err

\* floor(a/b), b # 0
ClaimFloorDiv(a, b) == IF b > 0 THEN a \div b ELSE (-a) \div (-b)

\* a/b rounded toward zero, b # 0
ClaimTowardZero(a, b) ==
  LET p == IF a >= 0 THEN a ELSE -a
      q == IF b >= 0 THEN b ELSE -b
  IN IF (a >= 0) = (b > 0) THEN p \div q ELSE -(p \div q)

\* every result for a positive duration is 1.0, 1.1, 1.2 or 1.3
ClaimPositiveResults ==
  (speedCall.videoDuration > 0 /\ ~speedCall.err)
    => speedCall.speed10 \in {10, 11, 12, 13}

C18_SpeedFits ==
  (speedCall # NoCall /\ speedCall.videoDuration > 0 /\ ~speedCall.err) =>
    10 * (4 * speedCall.words)
      <= speedCall.speed10 * ClaimTarget10(speedCall.videoDuration)

\* C18 (amended): for a positive duration and a result without error, the
\* speed is between 1.0 and 1.3; the narration fits the target at the
\* returned speed exactly when it fits at speed 1.0 (estimated <= target);
\* otherwise the returned speed is below the required one, so the narration
\* lasts longer than the target, by a factor of at most 1.5/1.3.
C18_SpeedBelowRequired ==
  (speedCall # NoCall /\ speedCall.videoDuration > 0 /\ ~speedCall.err) =>
    LET est10 == 4 * speedCall.words
        t10 == ClaimTarget10(speedCall.videoDuration)
    IN /\ speedCall.speed10 \in 10..13
       /\ est10 <= t10 => speedCall.speed10 = 10
       /\ est10 > t10 =>
            /\ 10 * est10 > speedCall.speed10 * t10
            /\ 26 * est10 <= 3 * speedCall.speed10 * t10

C18_Witness ==
  /\ speedCall # NoCall
  /\ speedCall.words = 17
  /\ speedCall.videoDuration = 6
  /\ ~speedCall.err
  /\ speedCall.speed10 = 12

ClaimHailuo02(model) == model = "MiniMax-Hailuo-02" \/ model = "hailuo-02"

\* C19: the duration sent is min(requested, cap), a non-positive request
\* counting as 6, with cap = 10 for a Hailuo-02 model asked with a resolution
\* other than 1080P and cap = 6 otherwise; a duration sent above 6 goes with
\* resolution 768P; a Hailuo-02 request without resolution is sent with 768P.
C19_ClampRule ==
  videoReq # NoCall =>
    LET cap == IF ClaimHailuo02(videoReq.model) /\ videoReq.resolution # "1080P"
               THEN 10 ELSE 6
        asked == IF videoReq.duration <= 0 THEN 6 ELSE videoReq.duration
    IN /\ videoReq.body.Duration = IF asked < cap THEN asked ELSE cap
       /\ videoReq.body.Duration > 6 => videoReq.body.Resolution = "768P"
       /\ (ClaimHailuo02(videoReq.model) /\ videoReq.resolution = "")
            => videoReq.body.Resolution = "768P"

C19_Witness ==
  /\ videoReq # NoCall
  /\ videoReq.model = "hailuo-02"
  /\ videoReq.duration = 11
  /\ videoReq.resolution = "512P"
  /\ videoReq.body.Duration = 10
  /\ videoReq.body.Resolution = "768P"

\* C20: a Hailuo-02 request asked with 1080P is sent with a duration of at
\* most 6 and with resolution 1080P, and no request is sent with resolution
\* 1080P and a duration above 6.
C20_FullHDAtMostSix ==
  videoReq # NoCall =>
    /\ (ClaimHailuo02(videoReq.model) /\ videoReq.resolution = "1080P") =>
         /\ videoReq.body.Duration <= 6
         /\ videoReq.body.Resolution = "1080P"
    /\ videoReq.body.Resolution = "1080P" => videoReq.body.Duration <= 6

C20_Witness ==
  /\ videoReq # NoCall
  /\ videoReq.model = "MiniMax-Hailuo-02"
  /\ videoReq.duration = 9
  /\ videoReq.resolution = "1080P"
  /\ videoReq.body.Duration = 6
  /\ videoReq.body.Resolution = "1080P"

\* C21 (as stated): every step that adds a job of a user or changes a field
\* of one of the user's job rows (the soft delete included) leaves the user
\* without cached listing entries.
C21_EveryWriteInvalidates ==
  [][\A u \in Users :
       (\/ \E j \in JobIds : jobs[j].UserID = u /\ jobs'[j] # jobs[j]
        \/ Len(jobs') > Len(jobs) /\ jobs'[Len(jobs')].UserID = u)
         => ~cache'[u]]_vars

\* the job's narration call or mux step failed
SoftFailed(j) == task[j].generation.ErrorMessage \in {"TTS failed", "Combine failed"}

\* C22: a narrated video job whose narration call or mux step failed is
\* Completed, never Failed, with the silent video as output and the error
\* message stored; once its pipeline has ended it was debited its full cost
\* once, has the ledger entry of that amount and "completed" as its last
\* notification; the mux step (announced by the third progress message) is
\* entered only after a narration call that succeeded, and a failed
\* narration call is followed by no mux step.
C22_NarrationSoftFail ==
  \A j \in JobIds :
    /\ task[j].pc = "video_mux" =>
         (task[j].generation.ErrorMessage = ""
            /\ CountOf(notif[j], "progress") = 3)
    /\ SoftFailed(j) =>
         /\ jobs[j].Type = TypeVideo /\ jobs[j].Narration # 0
         /\ task[j].pc \in {"debit", "ledger", "done"}
         /\ jobs[j].Status = StatusCompleted
         /\ jobs[j].OutputURL = task[j].videoURL
         /\ jobs[j].ErrorMessage = task[j].generation.ErrorMessage
         /\ CountOf(notif[j], "failed") = 0
         /\ CountOf(notif[j], "progress")
              = IF task[j].generation.ErrorMessage = "TTS failed" THEN 2 ELSE 3
         /\ Ended(j) =>
              /\ debited[j] = 1
              /\ \E i \in EntriesOf(j) : ledger[i].Amount = -VideoNarrationCost
              /\ notif[j][Len(notif[j])] = "completed"

C22_Witness ==
  \E j, k \in JobIds :
    /\ Ended(j) /\ task[j].generation.ErrorMessage = "TTS failed"
    /\ k # j /\ task[k].generation.ErrorMessage = "Combine failed"
    /\ jobs[k].Status = StatusCompleted

\* the failure block ran for job j in this step
FailedNow(j) ==
  /\ jobs'[j].Status = StatusFailed
  /\ jobs'[j].ErrorMessage # ""
  /\ task'[j].generation = jobs'[j]
  /\ ~cache'[Owner(j)]
  /\ notif'[j] = Append(notif[j], "failed")
  /\ task'[j].pc = "done"
  /\ credits' = credits
  /\ ledger' = ledger
  /\ debited' = debited

\* C23: a step in which the music provider call, the audio decoding, the
\* audio file write, the video provider call or the poll (provider-side
\* failure, lookup failure, timeout) fails stores the job Failed with a
\* non-empty error message, invalidates the owner's cache, sends one "failed"
\* and ends the task without debit or ledger entry; a job whose task failed
\* takes no step afterwards, so it has exactly one "failed" and no
\* "completed" notification.
C23_FailureEndsPipeline ==
  [][\A j \in JobIds :
       /\ (task[j].pc = "music_call" /\ task'[j] # task[j]) =>
            \A o \in {"err", "badhex", "writefail"} :
              MusicGenerate(j, o) => FailedNow(j)
       /\ (task[j].pc = "video_call" /\ task'[j] # task[j]) =>
            (VideoGenerate(j, FALSE) => FailedNow(j))
       /\ (task[j].pc = "video_poll" /\ task'[j] # task[j]) =>
            \A o \in PollOutcomes \ PollSuccesses :
              VideoPoll(j, o) => FailedNow(j)
       /\ task[j].generation.Status = StatusFailed =>
            /\ task'[j] = task[j]
            /\ jobs'[j] = jobs[j]
            /\ notif'[j] = notif[j]
            /\ CountOf(notif[j], "failed") = 1
            /\ CountOf(notif[j], "completed") = 0
            /\ debited'[j] = 0
            /\ EntriesOf(j) = {}]_vars

C23_Witness ==
  \E j \in JobIds :
    /\ jobs[j].Type = TypeVideo
    /\ jobs[j].Status = StatusFailed
    /\ jobs[j].MiniMaxJobID = "task"
    /\ jobs[j].ErrorMessage # ""
    /\ notif[j] = <<"started", "progress", "failed">>
    /\ ~cache[Owner(j)]
    /\ resp = 0

\* ------------------------------------------------------------- C24 .. C27
TerminalLabels == SuccessLabels \cup FailureLabels

\* C24: the poller returns success only after a status query answered with
\* the label Success or Completed, returns the job-failed error only after
\* one answered with Failed or Error, and goes back to waiting for the next
\* tick after every other label and after a status query that failed.
C24_LabelsDecide ==
  [][poller'.pc # "idle" =>
       /\ poller'.result = "success" => poller'.last \in SuccessLabels
       /\ poller'.result = "jobfailed" => poller'.last \in FailureLabels
       /\ (/\ poller.pc = "querying"
           /\ poller'.pc # "querying"
           /\ poller'.last \notin TerminalLabels)
          => poller'.pc = "waiting" /\ poller'.result = ""]_vars

\* a status query failed after the first period and the loop goes on
C24_Witness ==
  /\ poller.pc = "waiting"
  /\ poller.last = "queryerr"
  /\ poller.now >= 2

C26_FileLookup ==
  (poller.pc = "returned" /\ poller.result = "success") =>
    IF poller.fileID
    THEN poller.lookups = 1 /\ poller.url = "looked-up"
    ELSE poller.lookups = 0 /\ poller.url = "own"

\* a success with a file id
C26_Witness ==
  /\ poller.pc = "returned"
  /\ poller.result = "success"
  /\ poller.fileID

\* C27: the poller is given 600 seconds for every model of the Hailuo-02
\* family, as the duration clamp knows it, and 300 seconds for the others.
C27_FamilyTimeout ==
  poller.pc # "idle" =>
    poller.timeout = IF ClaimHailuo02(poller.model) THEN 600 ELSE 300

\* ------------------------------------------------------------- C28 .. C29
\* C28: for every narration and duration that the submission check lets
\* through, negative durations included, the speed sent with the
\* narrated-audio request is at least 1.0 and at most 1.3.
C28_TTSSpeedRange ==
  (speedCall # NoCall /\ ~speedCall.err) => speedCall.tts10 \in 10..13

\* a negative duration: the recomputed speed is -0.1, the request says 1.0
C28_Witness ==
  /\ speedCall # NoCall
  /\ ~speedCall.err
  /\ speedCall.videoDuration < 0
  /\ speedCall.speed10 < 10
  /\ speedCall.tts10 = 10

\* C29: the maximum of the rejection message separates the narrations: for
\* every duration, a narration of at most that many words passes the check
\* and a narration of more words is rejected.
C29_MessageMaximum ==
  speedCall # NoCall =>
    /\ speedCall.words <= speedCall.maxWords => ~speedCall.err
    /\ speedCall.words > speedCall.maxWords => speedCall.err

\* ------------------------------------------------------------------- C30
\* the cover-art call of music job j did not deliver an image
ArtFailed(j) ==
  /\ jobs[j].Type = TypeMusic
  /\ \/ task[j].pc = "panicked"
     \/ task[j].generation.ThumbnailURL \notin {"", "art"}

\* C30: a music job whose cover-art call failed is Completed, carries the
\* placeholder of colour palette[job id mod 10] as its thumbnail, and is
\* debited once its pipeline has ended; it is never left unfinished or Failed.
C30_ArtFailureCompletes ==
  \A j \in JobIds :
    ArtFailed(j) =>
      /\ task[j].pc # "panicked"
      /\ jobs[j].Status = StatusCompleted
      /\ jobs[j].ThumbnailURL = PlaceholderCover(j)
      /\ Ended(j) => debited[j] = 1

\* ------------------------------------------------------------------- C31
\* C31: a step of the pipeline of job j leaves the favorite flag and the
\* public flag of the stored job as they were, so that a toggle made while
\* the pipeline runs outlives the pipeline's saves.
C31_PipelineKeepsFlags ==
  [][\A j \in DOMAIN jobs :
       (j \in DOMAIN task /\ task'[j] # task[j]) =>
         /\ jobs'[j].IsFavorite = jobs[j].IsFavorite
         /\ jobs'[j].IsPublic = jobs[j].IsPublic]_vars

\* ------------------------------------------------------------- C32 .. C35
\* the connections task s may still write to or is writing to
Reach(s) ==
  IF senders[s].pc = "idle" THEN {}
  ELSE {c \in senders[s].todo : clients[c] = senders[s].user}
         \cup (IF senders[s].pc = "writing" THEN {senders[s].conn} ELSE {})

\* C32: an entry of the registry changes only by being registered (from
\* absent) or unregistered (to absent), one connection at a time and without
\* touching the other entries; and a task inside SendToUser writes, and will
\* write, only to connections that are in the registry at that moment, so a
\* broadcast started after Unregister(conn) returned never sends to conn.
C32_RegistryTracksConnections ==
  [][/\ clients' # clients =>
          \A c \in Conns :
            clients'[c] # clients[c] =>
              /\ clients[c] = Unregistered \/ clients'[c] = Unregistered
              /\ \A d \in Conns \ {c} : clients'[d] = clients[d]
     /\ \A s \in Senders :
          \A c \in Reach(s)' : clients'[c] # Unregistered]_vars

\* a task is writing to one connection of its user while another connection
\* of that user waits in its loop and a third one is not registered
C32_Witness ==
  \E s \in Senders, c \in Conns :
    /\ senders[s].pc = "writing"
    /\ clients[c] = Unregistered
    /\ Cardinality(Reach(s)) = 2

\* C34: two tasks are never inside a write to the same connection at the
\* same time.
C34_WritesExclusive ==
  \A s, t \in Senders :
    (s # t /\ senders[s].pc = "writing" /\ senders[t].pc = "writing")
      => senders[s].conn # senders[t].conn

\* C35: a task inside SendToUser(u, m) writes m only to connections that are
\* registered with user u, whatever else is registered.
C35_OnlyOwnersConnections ==
  \A s \in Senders :
    senders[s].pc = "writing" => clients[senders[s].conn] = senders[s].user

\* a write to a connection of user u while a connection of another user is
\* registered and is one of the entries the loop visits
C35_Witness ==
  \E s \in Senders, c \in Conns :
    /\ senders[s].pc = "writing"
    /\ clients[c] \notin {Unregistered, senders[s].user}
    /\ c \in senders[s].todo

\* ------------------------------------------------------------------- C33
\* C33: the stored balance of every user is at least 0 in every state,
\* whatever jobs the user submitted while earlier ones were still running
\* and in whatever order they complete.
C33_BalanceNonNegative == \A u \in Users : credits[u] >= 0

\* ------------------------------------------------------------------- C36
\* C36: every job that a pipeline stored as Completed has a non-empty output
\* reference, and no job with an empty output reference is debited.
C36_CompletedHasOutput ==
  \A j \in JobIds :
    task[j].pc # "demo" =>
      /\ jobs[j].Status = StatusCompleted => jobs[j].OutputURL # ""
      /\ debited[j] > 0 => jobs[j].OutputURL # ""

\* ------------------------------------------------------------------- C37
\* the pipeline of job j has stored a terminal status and finished the
\* invalidation that follows it
Invalidated(j) ==
  /\ task[j].pc \in {"debit", "ledger", "done"}
  /\ jobs[j].Status \in Terminal

\* C37: once the pipeline of a job has finished the invalidation that
\* follows its terminal save, no cache entry of the owner shows the job as
\* Processing.
C37_NoStaleListing ==
  \A j \in JobIds :
    (Invalidated(j) /\ cache[Owner(j)] /\ j <= Len(lister.stored[Owner(j)]))
      => lister.stored[Owner(j)][j] # StatusProcessing

\* ------------------------------------------------------------------- C38
\* C38: the duration the handler passes to GenerateVideo, which is the one
\* it gives to the speed calculator at submission and in the pipeline and
\* the one it stores in the job (the requested duration, 6 when the request
\* says 0), is the duration of the request sent to the provider.
C38_FitDurationIsSentDuration ==
  (videoReq # NoCall /\ videoReq.duration # 0)
    => videoReq.body.Duration = videoReq.duration

\* ------------------------------------------------------------------- C39
\* C39: for every limit, the number of requests allowed to a client since
\* its window was started never exceeds the limit, the remaining count of a
\* reply is never negative, a denied request leaves the client's counter and
\* window start as they were, and a request of one client leaves the entries
\* of the other clients as they were.
C39_LimiterBounds ==
  [][(limiter # NoLimiter /\ limiter' # NoLimiter) =>
       /\ \A c \in RateClients : limiter'.granted[c] <= limiter'.limit
       /\ limiter'.reply # NoReply =>
            /\ limiter'.reply.remaining >= 0
            /\ ~limiter'.reply.allowed => limiter'.requests = limiter.requests
            /\ \A d \in RateClients \ {limiter'.reply.client} :
                 limiter'.requests[d] = limiter.requests[d]]_vars

\* ------------------------------------------------------------------- C40
\* job j exists and belongs to user u
ClaimOwned(u, j) == j \in JobIds /\ jobs[j].UserID = u

\* no record changes in this step
ClaimNothingChanges ==
  UNCHANGED <<jobs, credits, ledger, cache, notif, task, debited, inflight>>

\* C40: GetGeneration, DeleteGeneration, ToggleFavorite and TogglePublic
\* called by user u on job j answer NotFound and change nothing when j is
\* not a job of u, and read or change job j, and no other job, only when it
\* is a job of u; the owner's listing holds only jobs of the caller; the
\* public listing holds only jobs that are public and Completed.
C40_OwnerIsolation ==
  [][/\ \A u \in Callers, j \in 1..MaxRowJobs :
          /\ (resp' # 0 /\ jobs' = jobs /\ GetGeneration(u, j)) =>
               /\ resp' = StatusOK => ClaimOwned(u, j)
               /\ ~ClaimOwned(u, j) => resp' = StatusNotFound
          /\ (resp' # 0 /\ inflight' = inflight /\ DeleteGeneration(u, j)) =>
               /\ jobs' # jobs =>
                    /\ ClaimOwned(u, j)
                    /\ \A k \in JobIds \ {j} : jobs'[k] = jobs[k]
               /\ ~ClaimOwned(u, j) =>
                    resp' = StatusNotFound /\ ClaimNothingChanges
          /\ \A op \in Ops :
               (inflight = NoReq /\ jobs' = jobs /\ ToggleRead(u, j, op)) =>
                 /\ inflight' # NoReq =>
                      /\ ClaimOwned(u, j)
                      /\ inflight'.id = j
                      /\ inflight'.generation.UserID = u
                 /\ ~ClaimOwned(u, j) =>
                      resp' = StatusNotFound /\ ClaimNothingChanges
     /\ (inflight # NoReq /\ inflight' = NoReq) =>
          /\ jobs[inflight.id].UserID = inflight.generation.UserID
          /\ jobs'[inflight.id].UserID = inflight.generation.UserID
          /\ \A k \in JobIds \ {inflight.id} : jobs'[k] = jobs[k]
     /\ \A u \in Callers, j \in JobIds :
          ListingOf(u)[j] # "" => ClaimOwned(u, j)
     /\ \A j \in PublicRows :
          jobs[j].IsPublic /\ jobs[j].Status = StatusCompleted]_vars

\* a request was answered NotFound while a job that is public, Completed and
\* not a favorite exists
C40_Witness ==
  /\ resp = StatusNotFound
  /\ PublicRows # {}
  /\ \E j \in PublicRows : ~jobs[j].IsFavorite
====
